---- MODULE Spec2Model ----
(***************************************************************************)
(* Remote asset lifecycle of the reel analyzer: the command-line script    *)
(* src/analyze.py (analyze_reel) and the two Streamlit applications held   *)
(* in src/app.py (v15 "single call", lines 1-213, and v13                  *)
(* "conversational", lines 214-441).  The remote file service and the      *)
(* model endpoint are the environment: every remote call either returns,   *)
(* raises a rate-limit/quota error ("quota") or raises another error       *)
(* ("error").                                                              *)
(*                                                                         *)
(* A click handler of the application runs to completion inside one        *)
(* Streamlit script run, so each handler is one action.  analyze_reel      *)
(* blocks in time.sleep between polls, so it is modelled step by step.     *)
(* `trace` holds the calls the program made in the step just taken, in     *)
(* program order; it is empty after a step of the remote service.          *)
(***************************************************************************)
EXTENDS Naturals, Sequences, FiniteSets, TLC

VARIABLES
    program,      \* which script runs: "analyze", "single_call", "conversational"
    remote,       \* service side: state of every remote asset id
    deleteCalls,  \* service side: number of delete_file calls received per id
    nextId,       \* service side: next id upload_file will assign
    uploadCalls,  \* service side: number of upload_file requests received
    session,      \* st.session_state["analysis_state_<tab>"], per tab
    uploader,     \* per tab: the file list its uploader widget held at the last Analyze click
    trace,        \* calls made by the step just taken, in program order
    step,         \* which handler / step was just taken, and how it ended
    ar_pc,        \* analyze.py: position of __main__ / analyze_reel
    video_file,   \* analyze.py: local variable video_file (name, state)
    ar_result,    \* analyze.py: what __main__ printed
    polls         \* analyze.py: time.sleep(10) calls made so far (counted up to MaxPolls)

vars == <<program, remote, deleteCalls, nextId, uploadCalls, session, uploader, trace, step,
          ar_pc, video_file, ar_result, polls>>

-----------------------------------------------------------------------------
(* Bounds of the model *)

MaxUploads == 3
MaxPolls == 2

(* Program constants *)

PollSleepSeconds == 10
DELAY_BETWEEN_REQUESTS_SECONDS == 30

-----------------------------------------------------------------------------
(* The remote service *)

Ids == 1..MaxUploads

\* what a remote call can do: return, raise a rate-limit error, raise another error
Outcomes == {"ok", "quota", "error"}
Failures == {"quota", "error"}

\* the state a freshly uploaded asset is reported in
InitialStates == {"STATE_UNSPECIFIED", "PROCESSING"}

ReportText == "report"
NoReport == "absent"

-----------------------------------------------------------------------------
(* Events of the trace *)

Call(op, file, id, ids, res) ==
    [op |-> op, file |-> file, id |-> id, ids |-> ids, res |-> res, secs |-> 0]

Sleep(n) ==
    [op |-> "sleep", file |-> "-", id |-> 0, ids |-> <<>>, res |-> "ok", secs |-> n]

\* st.error / print of a caught exception, or an exception leaving the handler
Note(op, file) ==
    [op |-> op, file |-> file, id |-> 0, ids |-> <<>>, res |-> "ok", secs |-> 0]

RemoteOps == {"upload_file", "get_file", "fetch_file", "generate_content",
              "send_message", "delete_file"}

StepRec(name, tab, exit) == [name |-> name, tab |-> tab, exit |-> exit]

-----------------------------------------------------------------------------
(* src/analyze.py *)

NoFile == [name |-> 0, state |-> "NONE"]

ArTerminal == {"returned", "raised", "not_found"}

\* analyze.py:96-98: the video file is not there, nothing is uploaded
AR_NotFound ==
    /\ program = "analyze"
    /\ ar_pc = "main"
    /\ ar_pc' = "not_found"
    /\ ar_result' = "file not found"
    /\ trace' = <<Note("print", "your_reel.mp4")>>
    /\ step' = StepRec("main", "-", "not_found")
    /\ UNCHANGED <<program, uploader, remote, deleteCalls, nextId, uploadCalls, session,
                   video_file, polls>>

\* analyze.py:54-55: genai.upload_file; an exception leaves analyze_reel and is
\* printed by __main__ (lines 104-105)
AR_Upload ==
    /\ program = "analyze"
    /\ ar_pc = "main"
    /\ uploadCalls < MaxUploads
    /\ uploadCalls' = uploadCalls + 1
    /\ \E res \in Outcomes, st \in InitialStates :
        IF res = "ok"
        THEN /\ remote' = [remote EXCEPT ![nextId] = st]
             /\ nextId' = nextId + 1
             /\ video_file' = [name |-> nextId, state |-> st]
             /\ ar_pc' = "loop"
             /\ ar_result' = ar_result
             /\ trace' = <<Call("upload_file", "your_reel.mp4", nextId, <<>>, "ok")>>
             /\ step' = StepRec("upload", "-", "ok")
        ELSE /\ st = "PROCESSING"
             /\ ar_pc' = "raised"
             /\ ar_result' = "An error occurred"
             /\ trace' = <<Call("upload_file", "your_reel.mp4", 0, <<>>, res),
                           Note("print", "your_reel.mp4")>>
             /\ step' = StepRec("upload", "-", "raised")
             /\ UNCHANGED <<remote, nextId, video_file>>
    /\ UNCHANGED <<program, uploader, deleteCalls, session, polls>>

\* the wait loop is skipped
StillProcessing_Mut(vf) == FALSE

\* analyze.py:58: the loop condition
StillProcessing(vf) == vf.state = "PROCESSING"

\* analyze.py:58-60: the loop condition holds, the script sleeps.  The loop has
\* no other exit than a state change or an exception of get_file: nothing
\* counts the iterations or the time spent.
AR_Sleep ==
    /\ program = "analyze"
    /\ ar_pc = "loop"
    /\ StillProcessing(video_file)
    /\ ar_pc' = "sleeping"
    /\ polls' = IF polls < MaxPolls THEN polls + 1 ELSE polls
    /\ trace' = <<Sleep(PollSleepSeconds)>>
    /\ step' = StepRec("sleep", "-", "ok")
    /\ UNCHANGED <<program, uploader, remote, deleteCalls, nextId, uploadCalls, session,
                   video_file, ar_result>>

\* analyze.py:61: get_file after the sleep; an exception leaves analyze_reel
AR_Poll ==
    /\ program = "analyze"
    /\ ar_pc = "sleeping"
    /\ \E res \in Outcomes :
        IF res = "ok"
        THEN /\ video_file' = [video_file EXCEPT !.state = remote[video_file.name]]
             /\ ar_pc' = "loop"
             /\ ar_result' = ar_result
             /\ trace' = <<Call("get_file", "your_reel.mp4", video_file.name, <<>>, "ok")>>
             /\ step' = StepRec("poll", "-", "ok")
        ELSE /\ ar_pc' = "raised"
             /\ ar_result' = "An error occurred"
             /\ trace' = <<Call("get_file", "your_reel.mp4", video_file.name, <<>>, res),
                           Note("print", "your_reel.mp4")>>
             /\ step' = StepRec("poll", "-", "raised")
             /\ UNCHANGED video_file
    /\ UNCHANGED <<program, uploader, remote, deleteCalls, nextId, uploadCalls, session, polls>>

\* analyze.py:63: the only state that stops the workflow before inference
ProcessingFailed(vf) == vf.state = "FAILED"

\* analyze.py:63-80: after the loop: raise on FAILED, else generate_content,
\* delete_file, return.  No try/finally: an exception skips what follows.
AR_Finish ==
    /\ program = "analyze"
    /\ ar_pc = "loop"
    /\ ~StillProcessing(video_file)
    /\ IF ProcessingFailed(video_file)
       THEN /\ ar_pc' = "raised"
            /\ ar_result' = "An error occurred"
            /\ trace' = <<Note("raise ValueError", "your_reel.mp4"),
                          Note("print", "your_reel.mp4")>>
            /\ step' = StepRec("finish", "-", "processing_failed")
            /\ UNCHANGED <<remote, deleteCalls>>
       ELSE \E gen \in Outcomes, del \in Outcomes :
            LET id == video_file.name
                genEv == Call("generate_content", "your_reel.mp4", 0, <<id>>, gen)
                delEv == Call("delete_file", "your_reel.mp4", id, <<>>, del)
            IN  IF gen # "ok"
                THEN /\ del = "ok"
                     /\ ar_pc' = "raised"
                     /\ ar_result' = "An error occurred"
                     /\ trace' = <<genEv, Note("print", "your_reel.mp4")>>
                     /\ step' = StepRec("finish", "-", "inference_failed")
                     /\ UNCHANGED <<remote, deleteCalls>>
                ELSE /\ deleteCalls' = [deleteCalls EXCEPT ![id] = @ + 1]
                     /\ IF del = "ok"
                        THEN /\ remote' = [remote EXCEPT ![id] = "DELETED"]
                             /\ ar_pc' = "returned"
                             /\ ar_result' = ReportText
                             /\ trace' = <<genEv, delEv>>
                             /\ step' = StepRec("finish", "-", "ok")
                        ELSE /\ remote' = remote
                             /\ ar_pc' = "raised"
                             /\ ar_result' = "An error occurred"
                             /\ trace' = <<genEv, delEv, Note("print", "your_reel.mp4")>>
                             /\ step' = StepRec("finish", "-", "delete_failed")
    /\ UNCHANGED <<program, uploader, nextId, uploadCalls, session, video_file, polls>>

ReelNext == AR_NotFound \/ AR_Upload \/ AR_Sleep \/ AR_Poll \/ AR_Finish


-----------------------------------------------------------------------------
(* src/app.py: the session state *)

Tabs == {"Awareness", "Traffic", "Conversion"}

\* the videos the user has at hand, in the order of their names
FileOrder == <<"A.mp4", "B.mp4", "C.mp4">>
FileNames == {FileOrder[i] : i \in DOMAIN FileOrder}

\* a file's metrics, as far as the code looks at them: empty or not
MetricValues == {"", "2.5%"}

EmptyKpis == [n \in {} |-> ""]

\* every tab reads and writes one and the same session entry
SessionKey_Mut(funnel_stage) == "Awareness"

\* app.py:99 (306): session_state_key = f"analysis_state_{funnel_stage}", one
\* entry of st.session_state per tab
SessionKey(funnel_stage) == funnel_stage

\* app.py:101, 207 (308, 434)
FreshSession ==
    [status |-> "not_started", files |-> <<>>, kpis |-> EmptyKpis,
     final_report |-> NoReport]

\* app.py:159 (368)
FileInfo(name, id) ==
    [original_filename |-> name, api_file_name |-> id, status |-> "processing"]

Range(s) == {s[i] : i \in DOMAIN s}

Indices(s) == [i \in 1..Len(s) |-> i]

RECURSIVE Flatten(_)
Flatten(ss) == IF ss = <<>> THEN <<>> ELSE Head(ss) \o Flatten(Tail(ss))

\* position of a name in FileOrder
NameIndex(name) == CHOOSE i \in DOMAIN FileOrder : FileOrder[i] = name

\* a file list in ascending or in descending order of the names: the two
\* orders in which the uploader is made to hold a set of files
Ascending(s) == \A i \in 1..(Len(s) - 1) : NameIndex(s[i]) < NameIndex(s[i + 1])
Descending(s) == \A i \in 1..(Len(s) - 1) : NameIndex(s[i]) > NameIndex(s[i + 1])

\* what the file_uploader widget of a tab can hold (app.py:107, 109)
UploadedFileLists ==
    {s \in UNION {[1..n -> FileNames] : n \in 1..Len(FileOrder)} :
        Ascending(s) \/ Descending(s)}

\* The user runs one analysis at a time: an analysis is started in a tab
\* while the other tabs are untouched, or while one of them shows the
\* finished report of a one-file analysis.  A batch of several files is
\* explored as the first analysis of the run, later analyses are one-file
\* batches.
Parked(sess) ==
    /\ sess.status = "complete"
    /\ Len(sess.files) = 1
    /\ Cardinality(DOMAIN sess.kpis) = 1

OtherTabsIdle(tab) ==
    /\ Cardinality({t \in Tabs \ {tab} : session[t] # FreshSession}) <= 1
    /\ \A t \in Tabs \ {tab} : session[t] = FreshSession \/ Parked(session[t])
FirstAnalysis == uploadCalls = 0
SmallBatch(uploaded_files) == Len(uploaded_files) <= 1

-----------------------------------------------------------------------------
(* src/app.py: "Analyze" click, lines 147-162 (356-371) *)

\* every uploaded file is taken, with or without metrics
HasMetrics_Mut(kpi_input_data, name) == TRUE

\* app.py:149 (358)
HasMetrics(kpi_input_data, name) == kpi_input_data[name] # ""

\* the files with metrics, taken from the last to the first
FilesToProcess_Mut(uploaded_files, kpi_input_data) ==
    LET sel == SelectSeq(uploaded_files, LAMBDA f : HasMetrics(kpi_input_data, f))
    IN  [i \in 1..Len(sel) |-> sel[Len(sel) + 1 - i]]

\* app.py:149 (358): the list comprehension keeps the order of uploaded_files
FilesToProcess(uploaded_files, kpi_input_data) ==
    SelectSeq(uploaded_files, LAMBDA f : HasMetrics(kpi_input_data, f))

\* the loop gives up at the first upload that raises
UploadAttempts_Mut(ftp, ocs) == {i \in 1..Len(ftp) : \A j \in 1..(i - 1) : ocs[j] = "ok"}

\* app.py:154-161: the try/except is inside the for loop, so every file of
\* files_to_process is attempted whatever happened to the ones before it
UploadAttempts(ftp, ocs) == 1..Len(ftp)

OkBefore(ocs, attempted, i) == Cardinality({j \in attempted : j < i /\ ocs[j] = "ok"})

\* the entry is appended before the upload is known to have succeeded
Appended_Mut(oc) == TRUE

\* app.py:158-159: the entry is appended after upload_file has returned, so
\* only for an upload that succeeded
Appended(oc) == oc = "ok"

\* app.py:155-161: one iteration.  The temp file is written, upload_file is
\* called; on return the entry is appended and the temp file removed, on an
\* exception st.error reports the file (line 161).
UploadEvents(name, oc, id) ==
    IF oc = "ok"
    THEN <<Note("tmp_write", name), Call("upload_file", name, id, <<>>, "ok"),
           Note("append", name), Note("os.remove", name)>>
    ELSE <<Note("tmp_write", name), Call("upload_file", name, 0, <<>>, oc),
           Note("st.error", name)>>

AnalyzeClick(tab) ==
    /\ program \in {"single_call", "conversational"}
    /\ session[SessionKey(tab)].status = "not_started"
    /\ OtherTabsIdle(tab)
    /\ \E uploaded_files \in UploadedFileLists :
       /\ FirstAnalysis \/ SmallBatch(uploaded_files)
       /\ uploader' = [uploader EXCEPT ![tab] = uploaded_files]
       /\ \E kpi_input_data \in [Range(uploaded_files) -> MetricValues] :
        LET ftp == FilesToProcess(uploaded_files, kpi_input_data)
        IN  IF ftp = <<>>
            THEN /\ session' = [session EXCEPT ![SessionKey(tab)].kpis = kpi_input_data]
                 /\ trace' = <<Note("st.error", "-")>>
                 /\ step' = StepRec("analyze_click", tab, "no_kpis")
                 /\ UNCHANGED <<remote, nextId, uploadCalls>>
            ELSE \E ocs \in [1..Len(ftp) -> Outcomes], st \in InitialStates :
                 LET att == UploadAttempts(ftp, ocs)
                     okIdx == {i \in att : ocs[i] = "ok"}
                     idOf(i) == IF ocs[i] = "ok" THEN nextId + OkBefore(ocs, att, i) ELSE 0
                     order == SelectSeq(Indices(ftp), LAMBDA i : i \in att)
                     kept == SelectSeq(order, LAMBDA i : Appended(ocs[i]))
                 IN  /\ uploadCalls + Cardinality(att) <= MaxUploads
                     /\ uploadCalls' = uploadCalls + Cardinality(att)
                     /\ session' = [session EXCEPT
                            ![SessionKey(tab)].kpis = kpi_input_data,
                            ![SessionKey(tab)].files = session[SessionKey(tab)].files
                                \o [k \in 1..Len(kept) |-> FileInfo(ftp[kept[k]], idOf(kept[k]))],
                            ![SessionKey(tab)].status = "processing"]
                     /\ remote' = [id \in Ids |->
                            IF \E i \in okIdx : idOf(i) = id THEN st ELSE remote[id]]
                     /\ nextId' = nextId + Cardinality(okIdx)
                     /\ trace' = Flatten([k \in 1..Len(order) |->
                            UploadEvents(ftp[order[k]], ocs[order[k]], idOf(order[k]))])
                     /\ step' = StepRec("analyze_click", tab, "uploaded")
    /\ UNCHANGED <<program, deleteCalls, ar_pc, video_file, ar_result, polls>>


-----------------------------------------------------------------------------
(* src/app.py: "Check Status & Generate Report" click, lines 167-202 (376-429) *)

\* every file that is not active is queried again
NeedsPoll_Mut(file_info) == file_info.status # "active"

\* app.py:171 (380): only a file still marked "processing" is queried
NeedsPoll(file_info) == file_info.status = "processing"

\* an asset the service reports FAILED is taken for one still being processed
StatusFor_Mut(state) ==
    IF state = "ACTIVE" THEN "active" ELSE "processing"

\* app.py:173-175 (382-384)
StatusFor(state) ==
    IF state = "ACTIVE" THEN "active"
    ELSE IF state = "FAILED" THEN "failed"
    ELSE "processing"

\* every file that has left "processing" is put in the request
IsActive_Mut(file_info) == file_info.status # "processing"

\* app.py:180 (388)
IsActive(file_info) == file_info.status = "active"

PollTargets(files) == SelectSeq(Indices(files), LAMBDA i : NeedsPoll(files[i]))

GetFileCall(file_info, res) ==
    Call("get_file", file_info.original_filename, file_info.api_file_name, <<>>, res)

\* app.py:186 (407): genai.get_file is called again for an active file, to put
\* the file object in the request; its state is not read and the tracked
\* status is not touched.  The event is named apart from the status query of
\* line 172 (381).
FetchCall(file_info) ==
    Call("fetch_file", file_info.original_filename, file_info.api_file_name, <<>>, "ok")

ApiNames(files) == [i \in 1..Len(files) |-> files[i].api_file_name]

\* app.py:180-190: v15 sends one request holding every active file
SingleCallPlan(active) ==
    [i \in 1..Len(active) |-> FetchCall(active[i])]
        \o <<Call("generate_content", "-", 0, ApiNames(active), "ok")>>

\* app.py:400-414: v13 sends the active files one by one, sleeping between them
PerVideoSteps(active, i) ==
    <<FetchCall(active[i]),
      Call("send_message", active[i].original_filename, 0,
           <<active[i].api_file_name>>, "ok")>>
        \o (IF i < Len(active) THEN <<Sleep(DELAY_BETWEEN_REQUESTS_SECONDS)>> ELSE <<>>)

\* app.py:388-418
ConversationPlan(active) ==
    <<Call("send_message", "initial prompt", 0, <<>>, "ok")>>
        \o Flatten([i \in 1..Len(active) |-> PerVideoSteps(active, i)])
        \o <<Call("send_message", "final synthesis", 0, <<>>, "ok")>>

InferencePlan(prog, active) ==
    IF prog = "single_call" THEN SingleCallPlan(active) ELSE ConversationPlan(active)

CallPositions(plan) == SelectSeq(Indices(plan), LAMBDA i : plan[i].op \in RemoteOps)

\* the call that raises is made a second time after a sleep
RunPlan_Mut(plan, failPos, cls) ==
    IF failPos = 0 THEN plan
    ELSE SubSeq(plan, 1, failPos - 1)
             \o <<[plan[failPos] EXCEPT !.res = cls],
                  Sleep(DELAY_BETWEEN_REQUESTS_SECONDS),
                  [plan[failPos] EXCEPT !.res = cls],
                  Note("st.error", plan[failPos].file)>>

\* A plan run up to the call that raises: nothing after it is executed, and
\* the except clause (app.py:200-202, 427-429) reports it.  No call is repeated.
RunPlan(plan, failPos, cls) ==
    IF failPos = 0 THEN plan
    ELSE SubSeq(plan, 1, failPos - 1) \o <<[plan[failPos] EXCEPT !.res = cls]>>
             \o <<Note("st.error", plan[failPos].file)>>

\* only the files that went into the request are deleted
DeleteTargets_Mut(files) == SelectSeq(Indices(files), LAMBDA i : IsActive(files[i]))

\* app.py:195-197 (422-424): every tracked file is deleted, errors are passed over
DeleteTargets(files) == Indices(files)

DeleteEvents(files, delFail) ==
    [k \in 1..Len(DeleteTargets(files)) |->
        LET i == DeleteTargets(files)[k]
        IN  Call("delete_file", files[i].original_filename, files[i].api_file_name,
                 <<>>, IF i \in delFail THEN "error" ELSE "ok")]

\* app.py:170-175: the status loop.  get_file is not inside a try: an exception
\* leaves the handler with the statuses written so far kept in the session.
PolledOk(files, pollFail) ==
    IF pollFail = 0 THEN PollTargets(files)
    ELSE SubSeq(PollTargets(files), 1, pollFail - 1)

AfterPoll(files, pollFail) ==
    [i \in 1..Len(files) |->
        IF i \in Range(PolledOk(files, pollFail))
        THEN [files[i] EXCEPT !.status = StatusFor(remote[files[i].api_file_name])]
        ELSE files[i]]

PollEvents(files, pollFail, cls) ==
    [k \in 1..Len(PolledOk(files, pollFail)) |->
        GetFileCall(files[PolledOk(files, pollFail)[k]], "ok")]
    \o (IF pollFail = 0 THEN <<>>
        ELSE <<GetFileCall(files[PollTargets(files)[pollFail]], cls),
               Note("uncaught", files[PollTargets(files)[pollFail]].original_filename)>>)

\* app.py:168, 175, 177
AllFilesReady(files, pollFail) ==
    /\ pollFail = 0
    /\ \A i \in Range(PollTargets(files)) :
           StatusFor(remote[files[i].api_file_name]) # "processing"

\* the tab is marked complete, the report is not stored
ReportStored_Mut(sess) == [sess EXCEPT !.status = "complete"]

\* app.py:192-193 (419-420): the text of the response is stored, then the
\* status is set
ReportStored(sess) == [sess EXCEPT !.final_report = ReportText, !.status = "complete"]

\* the failed analysis is thrown away and the tab starts over
InferenceFailed_Mut(sess) == FreshSession

\* app.py:200-202 (427-429): the except clause of the inference step reports
\* the error and writes status "processing"; it touches nothing else
InferenceFailed(sess) == [sess EXCEPT !.status = "processing"]

CheckClick(tab) ==
    /\ program \in {"single_call", "conversational"}
    /\ session[SessionKey(tab)].status = "processing"
    /\ LET files == session[SessionKey(tab)].files IN
       \E pollFail \in 0..Len(PollTargets(files)) :
       \E pcls \in IF pollFail = 0 THEN {"error"} ELSE Failures :
       LET files1 == AfterPoll(files, pollFail)
           pollEv == PollEvents(files, pollFail, pcls)
       IN  IF ~AllFilesReady(files, pollFail)
           THEN /\ session' = [session EXCEPT ![SessionKey(tab)].files = files1]
                /\ trace' = pollEv
                /\ step' = StepRec("check_click", tab,
                                   IF pollFail = 0 THEN "waiting" ELSE "uncaught")
                /\ UNCHANGED <<remote, deleteCalls>>
           ELSE LET active == SelectSeq(files1, IsActive)
                    plan == InferencePlan(program, active)
                    calls == CallPositions(plan)
                IN  \E f \in 0..Len(calls) :
                    IF f # 0
                    THEN \E cls \in Failures :
                         /\ session' = [session EXCEPT ![SessionKey(tab)] =
                                InferenceFailed([session[SessionKey(tab)] EXCEPT !.files = files1])]
                         /\ trace' = pollEv \o RunPlan(plan, calls[f], cls)
                         /\ step' = StepRec("check_click", tab, "inference_failed")
                         /\ UNCHANGED <<remote, deleteCalls>>
                    ELSE \E delFail \in SUBSET Range(DeleteTargets(files1)) :
                         LET dels == DeleteEvents(files1, delFail)
                         IN  /\ session' = [session EXCEPT ![SessionKey(tab)] =
                                    ReportStored([session[SessionKey(tab)] EXCEPT !.files = files1])]
                             /\ deleteCalls' = [id \in Ids |->
                                    deleteCalls[id]
                                      + Cardinality({k \in DOMAIN dels : dels[k].id = id})]
                             /\ remote' = [id \in Ids |->
                                    IF \E k \in DOMAIN dels :
                                           dels[k].id = id /\ dels[k].res = "ok"
                                    THEN "DELETED" ELSE remote[id]]
                             /\ trace' = pollEv \o RunPlan(plan, 0, "error") \o dels
                             /\ step' = StepRec("check_click", tab, "complete")
    /\ UNCHANGED <<program, uploader, nextId, uploadCalls, ar_pc, video_file, ar_result, polls>>

\* the reset button is also offered while the tab is processing
ResetClick_Mut(tab) ==
    /\ program \in {"single_call", "conversational"}
    /\ session[SessionKey(tab)].status \in {"processing", "complete"}
    /\ session' = [session EXCEPT ![SessionKey(tab)] = FreshSession]
    /\ uploader' = [uploader EXCEPT ![tab] = <<>>]
    /\ trace' = <<>>
    /\ step' = StepRec("reset_click", tab, "ok")
    /\ UNCHANGED <<program, remote, deleteCalls, nextId, uploadCalls,
                   ar_pc, video_file, ar_result, polls>>

\* app.py:206-207 (433-434): "Start New Analysis".  The uploader widget was not
\* rendered since the Analyze click (lines 103-107), so it comes back empty.
ResetClick(tab) ==
    /\ program \in {"single_call", "conversational"}
    /\ session[SessionKey(tab)].status = "complete"
    /\ session' = [session EXCEPT ![SessionKey(tab)] = FreshSession]
    /\ uploader' = [uploader EXCEPT ![tab] = <<>>]
    /\ trace' = <<>>
    /\ step' = StepRec("reset_click", tab, "ok")
    /\ UNCHANGED <<program, remote, deleteCalls, nextId, uploadCalls,
                   ar_pc, video_file, ar_result, polls>>

AppNext == \E tab \in Tabs : AnalyzeClick(tab) \/ CheckClick(tab) \/ ResetClick(tab)

-----------------------------------------------------------------------------
(* The remote service works on an uploaded asset on its own *)

ServiceAdvance(id) ==
    /\ remote[id] \in {"STATE_UNSPECIFIED", "PROCESSING"}
    /\ \E st \in IF remote[id] = "STATE_UNSPECIFIED" THEN {"PROCESSING"}
                 ELSE {"ACTIVE", "FAILED"} :
           remote' = [remote EXCEPT ![id] = st]
    /\ trace' = <<>>
    /\ step' = StepRec("service", "-", "ok")
    /\ UNCHANGED <<program, uploader, deleteCalls, nextId, uploadCalls, session,
                   ar_pc, video_file, ar_result, polls>>

ServiceNext == \E id \in Ids : ServiceAdvance(id)

-----------------------------------------------------------------------------

Init ==
    /\ program \in {"analyze", "single_call", "conversational"}
    /\ remote = [id \in Ids |-> "NONE"]
    /\ deleteCalls = [id \in Ids |-> 0]
    /\ nextId = 1
    /\ uploadCalls = 0
    /\ session = [t \in Tabs |-> FreshSession]
    /\ uploader = [t \in Tabs |-> <<>>]
    /\ trace = <<>>
    /\ step = StepRec("init", "-", "-")
    /\ ar_pc = "main"
    /\ video_file = NoFile
    /\ ar_result = "none"
    /\ polls = 0

Next == ReelNext \/ AppNext \/ ServiceNext

Spec == Init /\ [][Next]_vars


\* The program keeps running and the user keeps clicking the status button;
\* nothing is assumed about the remote service or the model endpoint.
FairSpec ==
    /\ Spec
    /\ WF_vars(AR_NotFound \/ AR_Upload)
    /\ WF_vars(AR_Sleep)
    /\ WF_vars(AR_Poll)
    /\ WF_vars(AR_Finish)
    /\ \A tab \in Tabs : WF_vars(CheckClick(tab))

\* One tab of either app, with the remote service.  The service finishes its
\* work on every asset, and the user keeps clicking the status button until a
\* click whose status queries and inference call(s) are able to succeed does
\* succeed: such a click is not refused for ever.
LiveTab == "Awareness"

LiveInit == Init /\ program \in {"single_call", "conversational"}

LiveNext ==
    \/ AnalyzeClick(LiveTab)
    \/ CheckClick(LiveTab)
    \/ ResetClick(LiveTab)
    \/ ServiceNext

LiveSpec ==
    /\ LiveInit
    /\ [][LiveNext]_vars
    /\ WF_vars(ServiceNext)
    /\ WF_vars(CheckClick(LiveTab) /\ step'.exit = "complete")

-----------------------------------------------------------------------------
(* Vocabulary of the properties *)

InferenceOps == {"generate_content", "send_message"}

Settled(file_info) == file_info.status \in {"active", "failed"}

TrackedIn(tab, id) ==
    \E i \in DOMAIN session[tab].files : session[tab].files[i].api_file_name = id

IsApp == program \in {"single_call", "conversational"}

\* the step just taken is the report generation of a tab: the status click
\* found every file settled and went on to the inference call(s)
ReportStep(tab) ==
    /\ step.name = "check_click"
    /\ step.tab = tab
    /\ step.exit \in {"complete", "inference_failed"}

SameCall(e1, e2) ==
    /\ e1.op = e2.op
    /\ e1.file = e2.file
    /\ e1.id = e2.id
    /\ e1.ids = e2.ids

Reported(e) == e.op \in {"st.error", "print", "uncaught"}

-----------------------------------------------------------------------------
(* C1: for every remote id obtained from an upload, one workflow invocation
   (analyze_reel, or the report generation of the app) has called delete_file
   exactly once for it when it ends, on every exit path. *)
C1_DeleteExactlyOnce ==
    /\ (program = "analyze" /\ ar_pc \in {"returned", "raised"} /\ video_file # NoFile)
           => deleteCalls[video_file.name] = 1
    /\ \A tab \in Tabs :
           ReportStep(tab) =>
               \A i \in DOMAIN session[tab].files :
                   deleteCalls[session[tab].files[i].api_file_name] = 1

(* C2: in the session workflow, every tracked handle of a tab whose handles
   have all reached a terminal status is eventually sent a delete, whether or
   not the inference call succeeds. *)
C2_SettledEventuallyDeleted ==
    \A id \in Ids :
        (\E tab \in Tabs :
            /\ TrackedIn(tab, id)
            /\ \A i \in DOMAIN session[tab].files : Settled(session[tab].files[i]))
        ~> (deleteCalls[id] > 0)

(* C3: the wait loop of analyze_reel terminates, also against a service that
   reports PROCESSING forever. *)
C3_PollTerminates == <>(program = "analyze" => ar_pc \in ArTerminal)

(* C4: no inference call is made with an asset observed in state FAILED:
   analyze_reel makes no generate_content call once it has seen FAILED, and
   every asset the app puts in an inference call is tracked with a status
   other than "failed". *)
C4_NoInferenceOnFailed ==
    /\ (program = "analyze" /\ video_file.state = "FAILED") =>
           /\ ar_pc # "returned"
           /\ \A k \in DOMAIN trace : trace[k].op \notin InferenceOps
    /\ IsApp =>
           \A k \in DOMAIN trace :
               trace[k].op \in InferenceOps =>
                   \A j \in DOMAIN trace[k].ids :
                       \E i \in DOMAIN session[step.tab].files :
                           /\ session[step.tab].files[i].api_file_name = trace[k].ids[j]
                           /\ session[step.tab].files[i].status # "failed"

C4_Witness ==
    /\ IsApp
    /\ step.name = "check_click"
    /\ \E i \in DOMAIN session[step.tab].files :
           session[step.tab].files[i].status = "failed"
    /\ \E k \in DOMAIN trace : trace[k].op \in InferenceOps /\ trace[k].ids # <<>>

(* C5: a tracked file whose status is "active" or "failed" keeps that status
   for as long as it is tracked and is never queried for its status again; a
   status only moves from "processing" to "active" or "failed"; analyze_reel
   does not change or re-query a state it has seen as ACTIVE or FAILED. *)
C5_SettledIsFinal ==
    [][ /\ \A tab \in Tabs : \A i \in DOMAIN session[tab].files :
            /\ (Settled(session[tab].files[i]) /\ i \in DOMAIN session'[tab].files)
                   => session'[tab].files[i] = session[tab].files[i]
            /\ Settled(session[tab].files[i]) =>
                   \A k \in DOMAIN trace' :
                       trace'[k].op = "get_file" =>
                           trace'[k].id # session[tab].files[i].api_file_name
        /\ video_file.state \in {"ACTIVE", "FAILED"} =>
            /\ video_file' = video_file
            /\ \A k \in DOMAIN trace' : trace'[k].op # "get_file"
      ]_vars

\* a status click that queried one file and left a settled one alone
C5_Witness ==
    /\ step.name = "check_click"
    /\ \E i, j \in DOMAIN session[step.tab].files :
        /\ Settled(session[step.tab].files[i])
        /\ \A k \in DOMAIN trace :
               trace[k].id # session[step.tab].files[i].api_file_name
        /\ \E k \in DOMAIN trace :
               /\ trace[k].op = "get_file"
               /\ trace[k].id = session[step.tab].files[j].api_file_name

(* C6: a tracked entry gets its api_file_name when it is created, from an
   upload_file call of the same step that returned, with an id the service
   had not assigned before; the name is never changed while the entry is
   tracked. *)
C6_RemoteIdAssignedOnce ==
    [][ \A tab \in Tabs : \A i \in DOMAIN session'[tab].files :
            IF i \in DOMAIN session[tab].files
            THEN session'[tab].files[i].api_file_name
                     = session[tab].files[i].api_file_name
            ELSE /\ session'[tab].files[i].api_file_name >= nextId
                 /\ session'[tab].files[i].api_file_name < nextId'
                 /\ \E k \in DOMAIN trace' :
                        /\ trace'[k].op = "upload_file"
                        /\ trace'[k].res = "ok"
                        /\ trace'[k].id = session'[tab].files[i].api_file_name
                        /\ trace'[k].file = session'[tab].files[i].original_filename
      ]_vars

\* a batch in which one upload raised and another returned and is tracked
C6_Witness ==
    /\ step.name = "analyze_click"
    /\ \E k \in DOMAIN trace : trace[k].op = "upload_file" /\ trace[k].res # "ok"
    /\ \E k \in DOMAIN trace :
           /\ trace[k].op = "upload_file"
           /\ trace[k].res = "ok"
           /\ TrackedIn(step.tab, trace[k].id)

(* C7: a remote call (upload, status query, inference) that fails with a
   rate-limit error is retried after a sleep: the first such failure of a
   step is followed by a sleep and by the same call again. *)
C7_QuotaFailureRetried ==
    \A k \in DOMAIN trace :
        (/\ trace[k].op \in RemoteOps \ {"delete_file"}
         /\ trace[k].res = "quota"
         /\ \A j \in 1..(k - 1) : trace[j].res # "quota")
        => /\ k + 2 <= Len(trace)
           /\ trace[k + 1].op = "sleep"
           /\ SameCall(trace[k + 2], trace[k])

(* C8: a remote call (upload, status query, inference) that fails with an
   error other than a rate limit is made once and its failure is reported or
   propagated at once: no sleep and no second call follow it. *)
C8_ErrorNotRetried ==
    \A k \in DOMAIN trace :
        (trace[k].op \in RemoteOps \ {"delete_file"} /\ trace[k].res = "error")
        => /\ k < Len(trace)
           /\ Reported(trace[k + 1])
           /\ \A j \in DOMAIN trace : SameCall(trace[j], trace[k]) => j = k

C8_Witness ==
    /\ IsApp
    /\ \E k \in DOMAIN trace :
        /\ trace[k].op \in InferenceOps
        /\ trace[k].res = "error"
        /\ k > 1

(* C9: in the upload loop every file that has metrics is attempted: a file
   whose upload raised is reported, a file whose upload returned is tracked,
   whatever happened to the files before it. *)
C9_UploadLoopContinues ==
    \A tab \in Tabs :
        (step.name = "analyze_click" /\ step.tab = tab /\ step.exit = "uploaded") =>
            \A name \in DOMAIN session[tab].kpis :
                HasMetrics(session[tab].kpis, name) =>
                    \E k \in DOMAIN trace :
                        /\ trace[k].op = "upload_file"
                        /\ trace[k].file = name
                        /\ IF trace[k].res = "ok"
                           THEN \E i \in DOMAIN session[tab].files :
                                    session[tab].files[i] = FileInfo(name, trace[k].id)
                           ELSE /\ k < Len(trace)
                                /\ trace[k + 1] = Note("st.error", name)

\* a batch of three files, the second upload raised, the first and the third
\* are tracked
C9_Witness ==
    /\ step.name = "analyze_click"
    /\ Len(session[step.tab].files) = 2
    /\ LET ups == SelectSeq(trace, LAMBDA e : e.op = "upload_file")
       IN  /\ Len(ups) = 3
           /\ ups[1].res = "ok"
           /\ ups[2].res # "ok"
           /\ ups[3].res = "ok"
           /\ session[step.tab].files[1].api_file_name = ups[1].id
           /\ session[step.tab].files[2].api_file_name = ups[3].id

(* C10: in a status click, a status query or a per-asset inference call that
   raises does not stop the batch: every file still "processing" has been
   queried in that run, and every active file has been sent to the model. *)
C10_LaterAssetsProcessed ==
    \A tab \in Tabs :
        (step.name = "check_click" /\ step.tab = tab) =>
            /\ (\E k \in DOMAIN trace : trace[k].op = "get_file" /\ trace[k].res # "ok")
                   => \A i \in DOMAIN session[tab].files :
                          NeedsPoll(session[tab].files[i]) =>
                              \E k \in DOMAIN trace :
                                  /\ trace[k].op = "get_file"
                                  /\ trace[k].id = session[tab].files[i].api_file_name
            /\ (\E k \in DOMAIN trace :
                    /\ trace[k].op = "send_message"
                    /\ trace[k].ids # <<>>
                    /\ trace[k].res # "ok")
                   => \A i \in DOMAIN session[tab].files :
                          IsActive(session[tab].files[i]) =>
                              \E k \in DOMAIN trace :
                                  /\ trace[k].op = "send_message"
                                  /\ trace[k].ids = <<session[tab].files[i].api_file_name>>

-----------------------------------------------------------------------------
\* the upload_file calls of the step just taken
UploadCallsInTrace == {k \in DOMAIN trace : trace[k].op = "upload_file"}

(* C11: an Analyze click leaves one tracked entry per asset it submitted:
   every file whose upload was attempted, also one whose upload raised, has
   an entry in the tab's files list, and the list is as long as the number
   of uploads attempted. *)
C11_OneOutcomePerAsset ==
    \A tab \in Tabs :
        (step.name = "analyze_click" /\ step.tab = tab) =>
            /\ \A k \in UploadCallsInTrace :
                   \E i \in DOMAIN session[tab].files :
                       session[tab].files[i].original_filename = trace[k].file
            /\ Len(session[tab].files) = Cardinality(UploadCallsInTrace)

-----------------------------------------------------------------------------
PositionIn(s, x) == CHOOSE i \in DOMAIN s : s[i] = x

NameOf(tab, id) ==
    LET i == CHOOSE i \in DOMAIN session[tab].files :
                 session[tab].files[i].api_file_name = id
    IN  session[tab].files[i].original_filename

\* the asset ids handed to the model by the step just taken, in call order
InferenceIds ==
    LET inf == SelectSeq(trace, LAMBDA e : e.op \in InferenceOps)
    IN  Flatten([k \in 1..Len(inf) |-> inf[k].ids])

(* C12: the tracked files are in the order of the uploader's list, and the
   assets are handed to the model (in one request, or message by message) in
   that order too: of two assets, the one that comes first in the input
   comes first in the files list and in the inference sequence. *)
C12_InputOrderPreserved ==
    \A tab \in Tabs :
        LET files == session[tab].files IN
        /\ \A i, j \in DOMAIN files :
               i < j =>
                   /\ files[i].original_filename \in Range(uploader[tab])
                   /\ files[j].original_filename \in Range(uploader[tab])
                   /\ PositionIn(uploader[tab], files[i].original_filename)
                          < PositionIn(uploader[tab], files[j].original_filename)
        /\ (step.name = "check_click" /\ step.tab = tab) =>
               \A i, j \in DOMAIN InferenceIds :
                   i < j =>
                       PositionIn(uploader[tab], NameOf(tab, InferenceIds[i]))
                           < PositionIn(uploader[tab], NameOf(tab, InferenceIds[j]))

\* two assets given in descending order of their names were both analysed
C12_Witness ==
    /\ step.name = "check_click"
    /\ step.exit = "complete"
    /\ Len(InferenceIds) >= 2
    /\ Len(uploader[step.tab]) >= 2
    /\ NameIndex(uploader[step.tab][1]) > NameIndex(uploader[step.tab][2])

-----------------------------------------------------------------------------
\* the inference calls of the step just taken that carry an asset
AssetCalls == {k \in DOMAIN trace : trace[k].op \in InferenceOps /\ trace[k].ids # <<>>}

(* C13: assets are handed to the model one at a time and with a pause in
   between: every inference call carries one asset, and between two
   inference calls that carry an asset there is a sleep. *)
C13_DelayBetweenAssets ==
    /\ \A k \in AssetCalls : Len(trace[k].ids) = 1
    /\ \A k1, k2 \in AssetCalls :
           k1 < k2 => \E m \in DOMAIN trace :
                          k1 < m /\ m < k2 /\ trace[m].op = "sleep"

-----------------------------------------------------------------------------
(* C14: a delete_file call that raises is swallowed: analyze_reel still
   returns the report to its caller, and the app still ends the step with
   the report stored and the session complete; nothing is reported as an
   error after the failed delete. *)
C14_DeleteFailureSwallowed ==
    \A k \in DOMAIN trace :
        (trace[k].op = "delete_file" /\ trace[k].res # "ok") =>
            /\ \A m \in DOMAIN trace : m > k => ~Reported(trace[m])
            /\ program = "analyze" =>
                   /\ ar_pc = "returned"
                   /\ ar_result = ReportText
            /\ IsApp =>
                   /\ session[step.tab].status = "complete"
                   /\ session[step.tab].final_report = ReportText

-----------------------------------------------------------------------------
\* the temp files written by the step just taken and not removed by it
TempFilesLeft ==
    {trace[k].file : k \in {k \in DOMAIN trace :
        /\ trace[k].op = "tmp_write"
        /\ ~\E m \in DOMAIN trace :
               m > k /\ trace[m].op = "os.remove" /\ trace[m].file = trace[k].file}}

(* C15: the temporary copy written for an asset is removed before the
   upload step ends, whether upload_file returned or raised: the step
   leaves no temp file behind. *)
C15_TempFileRemoved == TempFilesLeft = {}

-----------------------------------------------------------------------------
StatusQueries == {"get_file", "fetch_file"}

\* the state of an asset as the program last saw it
ObservedProcessing(id) ==
    IF program = "analyze"
    THEN video_file.name = id /\ video_file.state = "PROCESSING"
    ELSE \E i \in DOMAIN session[step.tab].files :
             /\ session[step.tab].files[i].api_file_name = id
             /\ session[step.tab].files[i].status = "processing"

(* C16: the stages come in order.  A status query names an id that an
   earlier upload_file call returned; every status poll of a step comes
   before its inference calls, and no inference call carries an asset the
   program last saw as processing; a delete_file call comes after an
   inference call and no inference call or status query follows it. *)
C16_StagesInOrder ==
    /\ \A k \in DOMAIN trace :
           trace[k].op \in StatusQueries =>
               /\ trace[k].id \in 1..(nextId - 1)
               /\ \A m \in DOMAIN trace :
                      (trace[m].op = "upload_file" /\ trace[m].id = trace[k].id) => m < k
    /\ \A k \in DOMAIN trace :
           trace[k].op \in InferenceOps =>
               /\ \A m \in DOMAIN trace : trace[m].op = "get_file" => m < k
               /\ \A j \in DOMAIN trace[k].ids : ~ObservedProcessing(trace[k].ids[j])
    /\ \A k \in DOMAIN trace :
           trace[k].op = "delete_file" =>
               /\ \E m \in DOMAIN trace : m < k /\ trace[m].op \in InferenceOps
               /\ \A m \in DOMAIN trace :
                      m > k => trace[m].op \notin (InferenceOps \cup StatusQueries)

\* analyze_reel went through upload, at least one poll, inference and delete
C16_Witness ==
    /\ program = "analyze"
    /\ ar_pc = "returned"
    /\ polls >= 1
    /\ \E k \in DOMAIN trace : trace[k].op = "generate_content"
    /\ \E k \in DOMAIN trace : trace[k].op = "delete_file"

-----------------------------------------------------------------------------
\* the failure is caught by an except clause that reports it
Captured(e) == e.op \in {"st.error", "print"}

(* C17: an exception of upload_file, of a status query or of an inference
   call is caught and reported by the program: the failing call is followed
   by the report of an except clause, and no exception leaves a handler. *)
C17_FailuresCaptured ==
    /\ \A k \in DOMAIN trace :
           (trace[k].op \in RemoteOps \ {"delete_file"} /\ trace[k].res # "ok")
               => /\ k < Len(trace)
                  /\ Captured(trace[k + 1])
    /\ \A k \in DOMAIN trace : trace[k].op # "uncaught"

-----------------------------------------------------------------------------
\* the program last saw the asset in state ACTIVE
ObservedReady(id) ==
    IF program = "analyze"
    THEN video_file.name = id /\ video_file.state = "ACTIVE"
    ELSE \E i \in DOMAIN session[step.tab].files :
             /\ session[step.tab].files[i].api_file_name = id
             /\ session[step.tab].files[i].status = "active"

(* C18: an inference call carries an asset only if the state the program
   last observed for it is ACTIVE; an asset last seen in any other state
   (FAILED, PROCESSING, STATE_UNSPECIFIED) is in no inference call. *)
C18_InferenceOnlyIfReady ==
    \A k \in AssetCalls :
        \A j \in DOMAIN trace[k].ids : ObservedReady(trace[k].ids[j])

-----------------------------------------------------------------------------
(* C19: a status click whose inference step fails leaves the tab ready for
   another try: the status is "processing", no report is stored, the files
   list keeps its length, its names and its remote ids, every file is
   settled and a file that was settled before keeps its status, and nothing
   is uploaded. *)
C19_InferenceFailureKeepsState ==
    [][ \A tab \in Tabs :
            (step'.name = "check_click" /\ step'.tab = tab
                /\ step'.exit = "inference_failed") =>
                /\ session'[tab].status = "processing"
                /\ session'[tab].final_report = NoReport
                /\ session'[tab].kpis = session[tab].kpis
                /\ Len(session'[tab].files) = Len(session[tab].files)
                /\ \A i \in DOMAIN session[tab].files :
                       /\ session'[tab].files[i].api_file_name
                              = session[tab].files[i].api_file_name
                       /\ session'[tab].files[i].original_filename
                              = session[tab].files[i].original_filename
                       /\ Settled(session'[tab].files[i])
                       /\ Settled(session[tab].files[i]) =>
                              session'[tab].files[i].status = session[tab].files[i].status
                /\ uploadCalls' = uploadCalls
                /\ nextId' = nextId
                /\ \A k \in DOMAIN trace' : trace'[k].op # "upload_file"
      ]_vars

\* the inference call for an active file has just failed
C19_Witness ==
    /\ step.name = "check_click"
    /\ step.exit = "inference_failed"
    /\ \E i \in DOMAIN session[step.tab].files :
           session[step.tab].files[i].status = "active"
    /\ \E k \in AssetCalls : trace[k].res # "ok"

-----------------------------------------------------------------------------
(* C20: an Analyze click with no file that has a non-empty metric value
   uploads nothing, tracks nothing and leaves the status "not_started"; in
   any Analyze click only files with a non-empty metric value are uploaded
   or tracked. *)
C20_NoMetricsNoUpload ==
    \A tab \in Tabs :
        (step.name = "analyze_click" /\ step.tab = tab) =>
            LET kpis == session[tab].kpis IN
            /\ (\A name \in DOMAIN kpis : kpis[name] = "") =>
                   /\ UploadCallsInTrace = {}
                   /\ session[tab].files = <<>>
                   /\ session[tab].status = "not_started"
            /\ \A k \in UploadCallsInTrace :
                   /\ trace[k].file \in DOMAIN kpis
                   /\ kpis[trace[k].file] # ""
            /\ \A i \in DOMAIN session[tab].files :
                   kpis[session[tab].files[i].original_filename] # ""

\* Analyze was clicked with two or more files, none of which has metrics
C20_Witness ==
    /\ step.name = "analyze_click"
    /\ step.exit = "no_kpis"
    /\ Len(uploader[step.tab]) >= 2
    /\ \A name \in Range(uploader[step.tab]) : session[step.tab].kpis[name] = ""

-----------------------------------------------------------------------------
SessionStatuses == {"not_started", "processing", "complete"}

\* the status changes the three branches of render_campaign_tab can make
StatusMoves ==
    {<<"not_started", "processing">>, <<"processing", "complete">>,
     <<"complete", "not_started">>}

(* C21: the status of a tab is "not_started", "processing" or "complete",
   and a step changes it only from not_started to processing, from
   processing to complete or from complete to not_started. *)
C21_StatusCycle ==
    [][ \A tab \in Tabs :
            /\ session[tab].status \in SessionStatuses
            /\ session'[tab].status \in SessionStatuses
            /\ session'[tab].status # session[tab].status =>
                   <<session[tab].status, session'[tab].status>> \in StatusMoves
      ]_vars

\* a tab has gone round the cycle: its analysis was completed and then reset
C21_Witness ==
    /\ step.name = "reset_click"
    /\ session[step.tab].status = "not_started"
    /\ \E id \in Ids : deleteCalls[id] > 0

-----------------------------------------------------------------------------
(* C22: a tab becomes complete only through an inference call that carried
   at least one active asset and returned; a status click on a tab whose
   files list is empty or holds only failed files makes no inference call
   and stores no report. *)
C22_CompleteNeedsReadyAsset ==
    \A tab \in Tabs :
        (step.name = "check_click" /\ step.tab = tab) =>
            /\ step.exit = "complete" =>
                   \E k \in AssetCalls : trace[k].res = "ok"
            /\ (\A i \in DOMAIN session[tab].files :
                    session[tab].files[i].status = "failed") =>
                   /\ \A k \in DOMAIN trace : trace[k].op \notin InferenceOps
                   /\ session[tab].final_report = NoReport
                   /\ session[tab].status # "complete"

-----------------------------------------------------------------------------
(* C23: when a step empties a tab's files list, a delete_file call has been
   made before for every remote id that was in the list. *)
C23_ResetAfterDeletes ==
    [][ \A tab \in Tabs :
            (session[tab].files # <<>> /\ session'[tab].files = <<>>) =>
                \A i \in DOMAIN session[tab].files :
                    deleteCalls[session[tab].files[i].api_file_name] >= 1
      ]_vars

\* a reset has just emptied a list, and a failed asset of an earlier list
\* was sent a delete (which raised: the asset is still on the service)
C23_Witness ==
    /\ step.name = "reset_click"
    /\ session[step.tab].files = <<>>
    /\ \E id \in Ids : deleteCalls[id] >= 1 /\ remote[id] = "FAILED"

-----------------------------------------------------------------------------
(* C24: a tab whose status is "complete" holds the report returned by the
   inference call in final_report; the report is never absent there. *)
C24_ReportWhenComplete ==
    \A tab \in Tabs :
        session[tab].status = "complete" =>
            /\ session[tab].final_report = ReportText
            /\ session[tab].final_report # NoReport

\* a tab has just been completed although one of its deletes raised
C24_Witness ==
    /\ step.name = "check_click"
    /\ step.exit = "complete"
    /\ session[step.tab].status = "complete"
    /\ \E k \in DOMAIN trace : trace[k].op = "delete_file" /\ trace[k].res # "ok"

-----------------------------------------------------------------------------
(* C25: the tabs do not touch each other: a click in one tab (Analyze,
   status check with or without inference, reset) leaves the status, the
   files, the kpis and the report of the other two tabs as they were. *)
C25_TabsIndependent ==
    [][ \A tab \in Tabs :
            (step'.tab = tab /\ step'.name \in {"analyze_click", "check_click", "reset_click"})
                => \A t \in Tabs \ {tab} : session'[t] = session[t]
      ]_vars

\* a click has just been handled in one tab while another tab holds a
\* finished analysis
C25_Witness ==
    /\ step.name \in {"analyze_click", "check_click"}
    /\ session[step.tab].files # <<>>
    /\ \E t \in Tabs \ {step.tab} :
           /\ session[t].status = "complete"
           /\ session[t].files # <<>>

-----------------------------------------------------------------------------
(* C26: when the service settles every tracked asset, the user keeps clicking
   the status button and the inference eventually succeeds, a tab whose
   status is "processing" eventually has status "complete". *)
C26_EventuallyComplete ==
    (session[LiveTab].status = "processing") ~> (session[LiveTab].status = "complete")

\* a status click has just completed a tab one of whose assets the service
\* settled as FAILED
C26_Witness ==
    /\ step.name = "check_click"
    /\ step.exit = "complete"
    /\ session[step.tab].status = "complete"
    /\ \E i \in DOMAIN session[step.tab].files :
           /\ session[step.tab].files[i].status = "failed"
           /\ remote[session[step.tab].files[i].api_file_name] = "DELETED"

====
